---- MODULE Spec2Model ----
(***************************************************************************)
(* Model of the complaint-management repository:                           *)
(*   - the frontend API client (src/unnamed/part_000): the shared axios    *)
(*     instance, its request/response interceptors, handleUnauthorized     *)
(*     and the exported endpoint functions;                                *)
(*   - the three Express bootstrap variants of src/server.js.              *)
(* Strings whose characters matter (tokens, the 'Bearer ' prefix) are      *)
(* sequences of one-character strings; JavaScript objects and key-value    *)
(* stores are functions whose DOMAIN is the set of keys present.           *)
(***************************************************************************)
EXTENDS Integers, Sequences, FiniteSets, TLC

VARIABLES
    localStorage,   \* window.localStorage: keys 'token' and 'user'
    defaults,       \* API.defaults.headers.common
    redirects,      \* number of assignments window.location.href = '/login'
    calls,          \* per slot: the endpoint call made through it
    config,         \* a request config handed to the request interceptor
    applied,        \* how many times the interceptor ran on config
    env,            \* process.env of the server: NODE_ENV, FRONTEND_URL
    variant,        \* which of the three bootstrap files runs
    pc,             \* index of the next bootstrap statement
    stack,          \* the Express app's layers, in registration order
    corsOptions,    \* the options object handed to cors()
    dbConnects,     \* number of connectDB() calls
    listens,        \* number of app.listen() calls
    exported,       \* TRUE once `export default app` is reached
    served          \* the last request served and how it was routed

clientVars == <<localStorage, defaults, redirects, calls>>
interceptorVars == <<config, applied>>
serverVars == <<env, variant, pc, stack, corsOptions, dbConnects, listens,
                exported, served>>
vars == <<localStorage, defaults, redirects, calls, config, applied, env,
          variant, pc, stack, corsOptions, dbConnects, listens, exported,
          served>>

-----------------------------------------------------------------------------
(* Bounds of the model.                                                    *)

\* 401 teardowns (redirects to '/login') followed in one run
MaxRedirects == 2
\* parts a stored token string is assembled from
MaxParts == 3

-----------------------------------------------------------------------------
(* Strings and key-value maps.                                             *)

\* the literal 'Bearer '
Bearer == <<"B", "e", "a", "r", "e", "r", " ">>

\* String.prototype.startsWith
startsWith(s, p) == Len(s) >= Len(p) /\ SubSeq(s, 1, Len(p)) = p

\* a map with no key
EmptyMap == [k \in {} |-> <<>>]

\* getItem(k) !== null, `k in obj`
Has(m, k) == k \in DOMAIN m

\* localStorage.removeItem(k), delete obj[k]
removeItem(m, k) == [x \in (DOMAIN m) \ {k} |-> m[x]]

\* localStorage.setItem(k, v), obj[k] = v
setItem(m, k, v) == [x \in (DOMAIN m) \cup {k} |-> IF x = k THEN v ELSE m[x]]

-----------------------------------------------------------------------------
(* The shared client: request interceptor.                                 *)

\* variant of the interceptor that prefixes unconditionally
RequestInterceptorAlwaysPrefix(cfg, ls) ==
    IF Has(ls, "token") /\ ls["token"] # <<>>
    THEN [cfg EXCEPT !.headers =
            setItem(cfg.headers, "Authorization", Bearer \o ls["token"])]
    ELSE cfg

\* API.interceptors.request.use(config => ...): reads the stored token and,
\* when it is truthy, sets config.headers.Authorization
RequestInterceptor(cfg, ls) ==
    IF Has(ls, "token") /\ ls["token"] # <<>>
    THEN [cfg EXCEPT !.headers =
            setItem(cfg.headers, "Authorization",
                    IF startsWith(ls["token"], Bearer)
                    THEN ls["token"]
                    ELSE Bearer \o ls["token"])]
    ELSE cfg

-----------------------------------------------------------------------------
(* HTTP responses and JavaScript values.                                   *)

\* a falsy response body (none, or the empty string)
NoBody == [empty |-> TRUE]

\* `x || ...` on a response body
Truthy(d) == d # NoBody

\* tokens the server issues without the scheme marker
RawTokens == {<<"a", "b", "c">>, <<"x", "y", "z">>}

\* tokens POST /auth/login may return: raw, or already carrying 'Bearer '
ServerTokens == RawTokens \cup {Bearer \o t : t \in RawTokens}

\* bodies of a successful POST /auth/login; organizationId is a server field
\* the client never reads
LoginBodies ==
    {[token |-> t, role |-> p[1], userId |-> p[2], firstName |-> p[3],
      lastName |-> p[4], departmentId |-> p[5], organizationId |-> p[6]] :
        t \in ServerTokens,
        p \in {<<"agent", 7, "Ann", "Lee", 3, 99>>,
               <<"admin", 8, "Bob", "Ray", 4, 42>>}}

\* what the caller passes to loginUser(email, password, organizationId)
LoginArgs ==
    {[email |-> "ann@x.org", password |-> "pw", organizationId |-> o] :
        o \in {42, 43}}

\* the arguments of the other endpoint functions do not reach the modelled
\* state (they only shape the URL, the query and the body)
NoArgs == [email |-> "", password |-> "", organizationId |-> 0]

\* HTTP error statuses the server answers with
ErrorStatuses == {401, 403, 404, 500}

\* bodies of an error response: none, a payload without msg, one with msg
ErrorBodies == {NoBody, [error |-> "failure"], [msg |-> "denied"]}

\* error.response is undefined: the request never got an answer
NetworkFailure == [kind |-> "network", status |-> 0, data |-> NoBody]

\* placeholder of a call that has no response yet
NoResp == [kind |-> "none", status |-> 0, data |-> NoBody]

\* error.response?.status === n
StatusIs(resp, n) == resp.kind = "error" /\ resp.status = n

\* error.response?.data
errorData(resp) == IF resp.kind = "error" THEN resp.data ELSE NoBody

\* error.response?.data?.msg is truthy
HasMsg(resp) == Has(errorData(resp), "msg")

\* error.message of the axios error
errorMessage(resp) ==
    IF resp.kind = "network" THEN "Network Error"
    ELSE "Request failed with status code"

\* how a call ends
Returned(v) == [kind |-> "return", value |-> v]
Thrown(v) == [kind |-> "throw", value |-> v]
NoOutcome == [kind |-> "none", value |-> [undefined |-> TRUE]]

\* JavaScript values: the key names the kind of value
Undefined == [undefined |-> TRUE]
Null == [null |-> TRUE]
Str(s) == [string |-> s]
NewError(m) == [Error |-> m]
Data(d) == [data |-> d]
AxiosError(resp) == [axiosError |-> resp]

\* throw error.response?.data || error.message
DataOrMessage(resp) ==
    IF Truthy(errorData(resp)) THEN Data(errorData(resp))
    ELSE Str(errorMessage(resp))

-----------------------------------------------------------------------------
(* The shared client: session teardown and response interceptor.  A world  *)
(* w holds the mutable browser state: w.ls (localStorage), w.defaults      *)
(* (API.defaults.headers.common) and w.redirects.                          *)

\* teardown that forgets to remove the stored token
handleUnauthorizedKeepsToken(w) ==
    [ls |-> removeItem(w.ls, "user"),
     defaults |-> removeItem(w.defaults, "Authorization"),
     redirects |-> w.redirects + 1]

\* export const handleUnauthorized
handleUnauthorized(w) ==
    [ls |-> removeItem(removeItem(w.ls, "token"), "user"),
     defaults |-> removeItem(w.defaults, "Authorization"),
     redirects |-> w.redirects + 1]

\* an error handler that leaves the session alone on a 401
ResponseInterceptorErrorNoTeardown(w, resp) == w

\* an error handler that tears the session down on a 403 as well
ResponseInterceptorErrorAlso403(w, resp) ==
    IF StatusIs(resp, 401) \/ StatusIs(resp, 403) THEN handleUnauthorized(w) ELSE w

\* API.interceptors.response.use(_, error => ...): the error handler; the
\* rejection it returns carries the same error
ResponseInterceptorError(w, resp) ==
    IF StatusIs(resp, 401) THEN handleUnauthorized(w) ELSE w

-----------------------------------------------------------------------------
(* The endpoint functions.  Each operator is the part of the function that *)
(* runs once its HTTP call has settled with resp (the try block after the  *)
(* await, or the catch block); it yields the world it leaves and how the   *)
(* call ends.                                                              *)

Ends(w, o) == [w |-> w, outcome |-> o]

\* try { return response.data } catch (error) { throw error }
RethrowRaw ==
    {"getOrganizations", "fetchOrganizationById", "checkOrganizationName",
     "signupUser", "registerSuperAdmin", "addUser", "fetchUsers",
     "deleteUser", "createComplaint", "getNotifications",
     "markNotificationAsRead", "markAllNotificationsAsRead",
     "deleteNotification", "submitFeedback", "canProvideFeedback",
     "getAllFeedback", "getFeedbackStats", "getFeedbackStatsByDepartment",
     "getFeedbackByDepartment"}

rethrowRaw(w, args, resp) ==
    IF resp.kind = "ok" THEN Ends(w, Returned(Data(resp.data)))
    ELSE Ends(w, Thrown(AxiosError(resp)))

\* catch (error) { throw error.response?.data || error.message }
ThrowDataOrMessage ==
    {"requestPasswordReset", "verifyOTP", "resetPassword",
     "fetchDepartmentEligibleUsers", "createDepartment", "getDepartmentById",
     "updateDepartment", "assignUsersToDepartment", "getDepartmentUsers",
     "removeUserFromDepartment", "getComplaints", "updateComplaintStatus",
     "escalateComplaint", "assignComplaint", "updateComplaintType",
     "deleteComplaintType", "createWorkflow", "getWorkflows",
     "getWorkflowById", "getWorkflowsByDepartment",
     "getWorkflowsByComplaintType", "updateWorkflowStage", "updateWorkflow",
     "deleteWorkflow", "getWorkflowTemplates",
     "getWorkflowTemplatesByCategory", "getWorkflowTemplateById",
     "createWorkflowFromTemplate", "importWorkflowTemplates"}

throwDataOrMessage(w, args, resp) ==
    IF resp.kind = "ok" THEN Ends(w, Returned(Data(resp.data)))
    ELSE Ends(w, Thrown(DataOrMessage(resp)))

\* catch (error) { throw error.response?.data?.msg || 'Failed to ...' }
ThrowMsgOrFallback ==
    {"getComplaintById", "fetchComplaintComments", "addCommentToComplaint"}

FallbackMessage(fn) ==
    CASE fn = "getComplaintById" -> "Failed to fetch complaint details"
      [] fn = "fetchComplaintComments" -> "Failed to fetch comments"
      [] fn = "addCommentToComplaint" -> "Failed to add comment"

throwMsgOrFallback(fn, w, args, resp) ==
    IF resp.kind = "ok" THEN Ends(w, Returned(Data(resp.data)))
    ELSE IF HasMsg(resp) THEN Ends(w, Thrown(Str(errorData(resp).msg)))
    ELSE Ends(w, Thrown(Str(FallbackMessage(fn))))

\* catch (error) { throw error.response?.data || error.msg }: an axios error
\* has no msg property
ThrowDataOrMsgProperty == {"createComplaintType", "getComplaintTypes"}

throwDataOrMsgProperty(w, args, resp) ==
    IF resp.kind = "ok" THEN Ends(w, Returned(Data(resp.data)))
    ELSE IF Truthy(errorData(resp)) THEN Ends(w, Thrown(Data(errorData(resp))))
    ELSE Ends(w, Thrown(Undefined))

\* export const registerOrganization
registerOrganization(w, args, resp) ==
    IF resp.kind = "ok"
    THEN IF Has(resp.data, "organizationId") /\ resp.data.organizationId # 0
         THEN Ends(w, Returned(Data(resp.data)))
         \* the Error thrown in the try block is caught by the catch block
         ELSE Ends(w, Thrown(NewError("Failed to register organization. Please try again.")))
    ELSE IF HasMsg(resp) THEN Ends(w, Thrown(NewError(errorData(resp).msg)))
    ELSE Ends(w, Thrown(NewError("Failed to register organization. Please try again.")))

\* the session object loginUser returns
Session(args, data, fullToken) ==
    [token |-> fullToken, role |-> data.role, email |-> args.email,
     userId |-> data.userId, firstName |-> data.firstName,
     lastName |-> data.lastName, organizationId |-> args.organizationId,
     departmentId |-> data.departmentId, isAuthenticated |-> TRUE]

\* loginUser that takes organizationId from the response
loginUserServerOrg(w, args, resp) ==
    IF resp.kind = "ok"
    THEN Ends([w EXCEPT !.ls = setItem(w.ls, "token", Bearer \o resp.data.token)],
              Returned([session |->
                  [Session(args, resp.data, Bearer \o resp.data.token)
                      EXCEPT !.organizationId = resp.data.organizationId]]))
    ELSE Ends(w, Thrown(AxiosError(resp)))

\* export const loginUser
loginUser(w, args, resp) ==
    IF resp.kind = "ok"
    THEN Ends([w EXCEPT !.ls = setItem(w.ls, "token", Bearer \o resp.data.token)],
              Returned([session |-> Session(args, resp.data, Bearer \o resp.data.token)]))
    ELSE Ends(w, Thrown(AxiosError(resp)))

\* the cleanup both branches of logoutUser run
ClearSession(w) ==
    [w EXCEPT !.ls = removeItem(removeItem(w.ls, "token"), "user"),
              !.defaults = removeItem(w.defaults, "Authorization")]

\* logoutUser that cleans up only when the remote call succeeded
logoutUserNoCleanupOnFailure(w, args, resp) ==
    IF resp.kind = "ok" THEN Ends(ClearSession(w), Returned(Undefined))
    ELSE Ends(w, Thrown(AxiosError(resp)))

\* export const logoutUser
logoutUser(w, args, resp) ==
    IF resp.kind = "ok" THEN Ends(ClearSession(w), Returned(Undefined))
    ELSE Ends(ClearSession(w), Thrown(AxiosError(resp)))

\* getAllDepartments without its 403 branch
getAllDepartmentsNo403(w, args, resp) ==
    IF resp.kind = "ok" THEN Ends(w, Returned(Data(resp.data)))
    ELSE Ends(w, Thrown(AxiosError(resp)))

\* export const getAllDepartments
getAllDepartments(w, args, resp) ==
    IF resp.kind = "ok" THEN Ends(w, Returned(Data(resp.data)))
    ELSE IF StatusIs(resp, 403)
    THEN Ends(w, Thrown(NewError("You do not have permission to view departments")))
    ELSE Ends(w, Thrown(AxiosError(resp)))

\* export const deleteDepartment
deleteDepartment(w, args, resp) ==
    IF resp.kind = "ok" THEN Ends(w, Returned(Data(resp.data)))
    ELSE IF HasMsg(resp) THEN Ends(w, Thrown(NewError(errorData(resp).msg)))
    ELSE Ends(w, Thrown(NewError(errorMessage(resp))))

\* export const getUnreadNotificationCount
getUnreadNotificationCount(w, args, resp) ==
    IF resp.kind = "ok" THEN Ends(w, Returned([number |-> resp.data.count]))
    ELSE Ends(w, Thrown(AxiosError(resp)))

\* getWorkflowForComplaint that turns every error status into null
getWorkflowForComplaintNullOnAnyStatus(w, args, resp) ==
    IF resp.kind = "ok" THEN Ends(w, Returned(Data(resp.data)))
    ELSE IF resp.kind = "error" THEN Ends(w, Returned(Null))
    ELSE Ends(w, Thrown(DataOrMessage(resp)))

\* export const getWorkflowForComplaint
getWorkflowForComplaint(w, args, resp) ==
    IF resp.kind = "ok" THEN Ends(w, Returned(Data(resp.data)))
    ELSE IF StatusIs(resp, 404) THEN Ends(w, Returned(Null))
    ELSE Ends(w, Thrown(DataOrMessage(resp)))

\* getFeedbackByComplaint without its 404 branch
getFeedbackByComplaintNo404(w, args, resp) ==
    IF resp.kind = "ok" THEN Ends(w, Returned(Data(resp.data)))
    ELSE Ends(w, Thrown(AxiosError(resp)))

\* export const getFeedbackByComplaint
getFeedbackByComplaint(w, args, resp) ==
    IF resp.kind = "ok" THEN Ends(w, Returned(Data(resp.data)))
    ELSE IF StatusIs(resp, 404) THEN Ends(w, Returned(Null))
    ELSE Ends(w, Thrown(AxiosError(resp)))

\* export const fetchAddressSuggestions
fetchAddressSuggestions(w, args, resp) ==
    IF resp.kind = "ok" THEN Ends(w, Returned(Data(resp.data.results)))
    ELSE Ends(w, Thrown(NewError("Failed to fetch address suggestions. Please try again.")))

\* the exported endpoint functions
Functions ==
    RethrowRaw \cup ThrowDataOrMessage \cup ThrowMsgOrFallback
    \cup ThrowDataOrMsgProperty
    \cup {"registerOrganization", "loginUser", "logoutUser",
          "getAllDepartments", "deleteDepartment",
          "getUnreadNotificationCount", "getWorkflowForComplaint",
          "getFeedbackByComplaint", "fetchAddressSuggestions"}

\* the functions that call API.get/post/put/delete; fetchAddressSuggestions
\* calls axios.get, which has no interceptor
UsesSharedClient(fn) == fn # "fetchAddressSuggestions"

\* the code of fn that runs after its HTTP call settled
Continuation(fn, w, args, resp) ==
    CASE fn = "loginUser" -> loginUser(w, args, resp)
      [] fn = "logoutUser" -> logoutUser(w, args, resp)
      [] fn = "registerOrganization" -> registerOrganization(w, args, resp)
      [] fn = "getAllDepartments" -> getAllDepartments(w, args, resp)
      [] fn = "deleteDepartment" -> deleteDepartment(w, args, resp)
      [] fn = "getUnreadNotificationCount" -> getUnreadNotificationCount(w, args, resp)
      [] fn = "getWorkflowForComplaint" -> getWorkflowForComplaint(w, args, resp)
      [] fn = "getFeedbackByComplaint" -> getFeedbackByComplaint(w, args, resp)
      [] fn = "fetchAddressSuggestions" -> fetchAddressSuggestions(w, args, resp)
      [] fn \in RethrowRaw -> rethrowRaw(w, args, resp)
      [] fn \in ThrowDataOrMessage -> throwDataOrMessage(w, args, resp)
      [] fn \in ThrowMsgOrFallback -> throwMsgOrFallback(fn, w, args, resp)
      [] fn \in ThrowDataOrMsgProperty -> throwDataOrMsgProperty(w, args, resp)

\* bodies a successful response to fn may carry
OkBodies(fn) ==
    CASE fn = "loginUser" -> LoginBodies
      [] fn = "registerOrganization" ->
            {[organizationId |-> 11], [name |-> "Acme"]}
      [] fn = "getUnreadNotificationCount" -> {[count |-> 2]}
      [] fn = "fetchAddressSuggestions" ->
            {[results |-> [formatted |-> "1 Main St"]]}
      [] OTHER -> {[id |-> 5]}

\* every way the HTTP call of fn can settle
Responses(fn) ==
    {[kind |-> "ok", status |-> 200, data |-> d] : d \in OkBodies(fn)}
    \cup {[kind |-> "error", status |-> s, data |-> d] :
            s \in ErrorStatuses, d \in ErrorBodies}
    \cup {NetworkFailure}

-----------------------------------------------------------------------------
(* The Express server (src/server.js holds three bootstrap variants).  A   *)
(* path is the sequence of its segments: '/api/complaints/types' is        *)
(* <<"api", "complaints", "types">> and '/' is <<>>.                       *)

\* a bootstrap statement: the call, its path and handler, and the condition
\* of the if block around it
Stmt(op, path, handler, when) ==
    [op |-> op, path |-> path, handler |-> handler, when |-> when]

\* variant 1: the nine route groups
Routes1 ==
    <<Stmt("use", <<"api", "organizations">>, "organizationRoutes", "always"),
      Stmt("use", <<"api", "auth">>, "authRoutes", "always"),
      Stmt("use", <<"api", "users">>, "userRoutes", "always"),
      Stmt("use", <<"api", "departments">>, "departmentRoutes", "always"),
      Stmt("use", <<"api", "complaints", "types">>, "complaintTypeRoutes", "always"),
      Stmt("use", <<"api", "complaints">>, "complaintRoutes", "always"),
      Stmt("use", <<"api", "workflows">>, "workflowRoutes", "always"),
      Stmt("use", <<"api", "notifications">>, "notificationRoutes", "always"),
      Stmt("use", <<"api", "feedback">>, "feedbackRoutes", "always")>>

\* variant 2 with the complaints group mounted ahead of complaint types
Routes2ComplaintsFirst ==
    <<Stmt("use", <<"api", "organizations">>, "organizationRoutes", "always"),
      Stmt("use", <<"api", "auth">>, "authRoutes", "always"),
      Stmt("use", <<"api", "users">>, "userRoutes", "always"),
      Stmt("use", <<"api", "departments">>, "departmentRoutes", "always"),
      Stmt("use", <<"api", "complaints">>, "complaintRoutes", "always"),
      Stmt("use", <<"api", "complaints", "types">>, "complaintTypeRoutes", "always"),
      Stmt("use", <<"api", "workflows">>, "workflowRoutes", "always"),
      Stmt("use", <<"api", "notifications">>, "notificationRoutes", "always"),
      Stmt("use", <<"api", "feedback">>, "feedbackRoutes", "always")>>

\* variant 2: the nine route groups
Routes2 ==
    <<Stmt("use", <<"api", "organizations">>, "organizationRoutes", "always"),
      Stmt("use", <<"api", "auth">>, "authRoutes", "always"),
      Stmt("use", <<"api", "users">>, "userRoutes", "always"),
      Stmt("use", <<"api", "departments">>, "departmentRoutes", "always"),
      Stmt("use", <<"api", "complaints", "types">>, "complaintTypeRoutes", "always"),
      Stmt("use", <<"api", "complaints">>, "complaintRoutes", "always"),
      Stmt("use", <<"api", "workflows">>, "workflowRoutes", "always"),
      Stmt("use", <<"api", "notifications">>, "notificationRoutes", "always"),
      Stmt("use", <<"api", "feedback">>, "feedbackRoutes", "always")>>

\* variant 3: the nine route groups
Routes3 ==
    <<Stmt("use", <<"api", "organizations">>, "organizationRoutes", "always"),
      Stmt("use", <<"api", "auth">>, "authRoutes", "always"),
      Stmt("use", <<"api", "users">>, "userRoutes", "always"),
      Stmt("use", <<"api", "departments">>, "departmentRoutes", "always"),
      Stmt("use", <<"api", "complaints", "types">>, "complaintTypeRoutes", "always"),
      Stmt("use", <<"api", "complaints">>, "complaintRoutes", "always"),
      Stmt("use", <<"api", "workflows">>, "workflowRoutes", "always"),
      Stmt("use", <<"api", "notifications">>, "notificationRoutes", "always"),
      Stmt("use", <<"api", "feedback">>, "feedbackRoutes", "always")>>

\* variant 1 that calls app.listen whatever NODE_ENV is
StartServer1Always ==
    <<Stmt("listen", <<>>, "", "always"),
      Stmt("export", <<>>, "", "always")>>

\* variant 1: if (NODE_ENV !== 'production') app.listen(...); export default app
StartServer1 ==
    <<Stmt("listen", <<>>, "", "notProduction"),
      Stmt("export", <<>>, "", "always")>>

\* variant 2: the same two statements
StartServer2 ==
    <<Stmt("listen", <<>>, "", "notProduction"),
      Stmt("export", <<>>, "", "always")>>

\* variant 3: the same two statements
StartServer3 ==
    <<Stmt("listen", <<>>, "", "notProduction"),
      Stmt("export", <<>>, "", "always")>>

\* variant 1, top to bottom
Bootstrap1 ==
    <<Stmt("use", <<>>, "express.json", "always"),
      Stmt("cors", <<>>, "cors", "always"),
      Stmt("use", <<"uploads">>, "express.static(uploads)", "always"),
      Stmt("connectDB", <<>>, "", "always")>>
    \o Routes1
    \o <<Stmt("get", <<>>, "rootCheck", "always")>>
    \o StartServer1

\* variant 2, top to bottom
Bootstrap2 ==
    <<Stmt("use", <<>>, "express.json", "always"),
      Stmt("use", <<>>, "express.urlencoded", "always"),
      Stmt("cors", <<>>, "cors", "always"),
      Stmt("use", <<"uploads">>, "express.static(uploads)", "always"),
      Stmt("connectDB", <<>>, "", "always"),
      Stmt("get", <<"api", "health">>, "healthCheck", "always")>>
    \o Routes2
    \o <<Stmt("use", <<>>, "express.static(frontend)", "production"),
         Stmt("get", <<"*">>, "spaFallback", "production"),
         Stmt("useError", <<>>, "errorHandler", "always"),
         Stmt("use", <<>>, "notFoundHandler", "always")>>
    \o StartServer2

\* variant 3, top to bottom
Bootstrap3 ==
    <<Stmt("use", <<>>, "express.json", "always"),
      Stmt("cors", <<>>, "cors", "always"),
      Stmt("use", <<"uploads">>, "express.static(uploads)", "always"),
      Stmt("connectDB", <<>>, "", "always")>>
    \o Routes3
    \o StartServer3

Variants == {1, 2, 3}

Bootstrap(v) ==
    CASE v = 1 -> Bootstrap1
      [] v = 2 -> Bootstrap2
      [] v = 3 -> Bootstrap3

\* process.env: a variable that is set holds a non-empty string
Environments ==
    UNION {[K -> {"development", "test", "production",
                  "https://app.example", "https://other.example"}] :
              K \in SUBSET {"NODE_ENV", "FRONTEND_URL"}}

EnvOk(e) ==
    /\ Has(e, "NODE_ENV") => e["NODE_ENV"] \in {"development", "test", "production"}
    /\ Has(e, "FRONTEND_URL") =>
          e["FRONTEND_URL"] \in {"https://app.example", "https://other.example"}

\* process.env.NODE_ENV === 'production'
IsProduction(e) == Has(e, "NODE_ENV") /\ e["NODE_ENV"] = "production"

\* the condition of the if block around a statement
Taken(st, e) ==
    CASE st.when = "always" -> TRUE
      [] st.when = "production" -> IsProduction(e)
      [] st.when = "notProduction" -> ~IsProduction(e)

\* cors options that allow every origin
CorsOptionsWildcard(e) == [origin |-> "*", credentials |-> TRUE]

\* { origin: process.env.FRONTEND_URL || '*', credentials: true }
CorsOptions(e) ==
    [origin |-> IF Has(e, "FRONTEND_URL") THEN e["FRONTEND_URL"] ELSE "*",
     credentials |-> TRUE]

NoCorsOptions == [origin |-> "", credentials |-> FALSE]

Layer(kind, path, handler) == [kind |-> kind, path |-> path, handler |-> handler]

\* the statement the bootstrap is at
Running == pc >= 1 /\ pc <= Len(Bootstrap(variant))
Current == Bootstrap(variant)[pc]
At(op) == Running /\ Current.op = op /\ Taken(Current, env)

\* app.use([path,] handler)
Use ==
    /\ At("use")
    /\ stack' = Append(stack, Layer("use", Current.path, Current.handler))
    /\ pc' = pc + 1
    /\ UNCHANGED <<env, variant, corsOptions, dbConnects, listens, exported, served>>
    /\ UNCHANGED clientVars
    /\ UNCHANGED interceptorVars

\* app.use((err, req, res, next) => ...): an error-handling layer
UseError ==
    /\ At("useError")
    /\ stack' = Append(stack, Layer("error", Current.path, Current.handler))
    /\ pc' = pc + 1
    /\ UNCHANGED <<env, variant, corsOptions, dbConnects, listens, exported, served>>
    /\ UNCHANGED clientVars
    /\ UNCHANGED interceptorVars

\* app.get(path, handler)
Get ==
    /\ At("get")
    /\ stack' = Append(stack, Layer("get", Current.path, Current.handler))
    /\ pc' = pc + 1
    /\ UNCHANGED <<env, variant, corsOptions, dbConnects, listens, exported, served>>
    /\ UNCHANGED clientVars
    /\ UNCHANGED interceptorVars

\* app.use(cors({...}))
UseCors ==
    /\ At("cors")
    /\ corsOptions' = CorsOptions(env)
    /\ stack' = Append(stack, Layer("use", Current.path, Current.handler))
    /\ pc' = pc + 1
    /\ UNCHANGED <<env, variant, dbConnects, listens, exported, served>>
    /\ UNCHANGED clientVars
    /\ UNCHANGED interceptorVars

\* connectDB(): started, not awaited
ConnectDB ==
    /\ At("connectDB")
    /\ dbConnects' = dbConnects + 1
    /\ pc' = pc + 1
    /\ UNCHANGED <<env, variant, stack, corsOptions, listens, exported, served>>
    /\ UNCHANGED clientVars
    /\ UNCHANGED interceptorVars

\* app.listen(PORT, ...)
Listen ==
    /\ At("listen")
    /\ listens' = listens + 1
    /\ pc' = pc + 1
    /\ UNCHANGED <<env, variant, stack, corsOptions, dbConnects, exported, served>>
    /\ UNCHANGED clientVars
    /\ UNCHANGED interceptorVars

\* export default app
Export ==
    /\ At("export")
    /\ exported' = TRUE
    /\ pc' = pc + 1
    /\ UNCHANGED <<env, variant, stack, corsOptions, dbConnects, listens, served>>
    /\ UNCHANGED clientVars
    /\ UNCHANGED interceptorVars

\* the condition of an if block is false: its statement is passed over
SkipBlock ==
    /\ Running
    /\ ~Taken(Current, env)
    /\ pc' = pc + 1
    /\ UNCHANGED <<env, variant, stack, corsOptions, dbConnects, listens, exported, served>>
    /\ UNCHANGED clientVars
    /\ UNCHANGED interceptorVars

\* requests the server is sent
Requests ==
    {[method |-> m, path |-> p, origin |-> o] :
        m \in {"GET", "POST"},
        p \in {<<>>, <<"api", "health">>, <<"api", "users">>,
               <<"api", "complaints">>, <<"api", "complaints", "5">>,
               <<"api", "complaints", "types">>,
               <<"api", "complaints", "types", "5">>,
               <<"api", "complaints", "typesetting">>,
               <<"uploads", "a.png">>, <<"dashboard">>},
        o \in {"https://app.example", "https://evil.example"}}

NoRequest == [method |-> "", path |-> <<>>, origin |-> ""]

\* the status and JSON body of an answer to a failed request; none when no
\* handler failed
NoErrorResponse == [status |-> 0, body |-> EmptyMap]

NotServed ==
    [req |-> NoRequest, offered |-> <<>>, handledBy |-> "", headers |-> EmptyMap,
     error |-> NoErrorResponse]

\* Express matches a layer when its path is a prefix of the request path on
\* a segment boundary
IsPrefix(p, q) == Len(p) <= Len(q) /\ SubSeq(q, 1, Len(p)) = p

\* whether the router offers the request to the layer; error-handling layers
\* are passed over while no handler has failed
Matches(layer, req) ==
    CASE layer.kind = "use" -> IsPrefix(layer.path, req.path)
      [] layer.kind = "get" ->
            /\ req.method = "GET"
            /\ (layer.path = <<"*">> \/ layer.path = req.path)
      [] layer.kind = "error" -> FALSE

\* body parsers and cors always call next(); a route handler and the 404
\* handler always answer; a route group or a static directory answers when
\* it has the route or the file, and calls next() otherwise
AlwaysPasses(layer) ==
    layer.handler \in {"express.json", "express.urlencoded", "cors"}

AlwaysAnswers(layer) ==
    layer.kind = "get" \/ layer.handler = "notFoundHandler"

\* the headers the cors middleware sets for options o
CorsHeaders(o) ==
    [k \in {"Access-Control-Allow-Origin", "Access-Control-Allow-Credentials"} |->
        IF k = "Access-Control-Allow-Origin" THEN o.origin
        ELSE IF o.credentials THEN "true" ELSE "false"]

\* the layers of the stack offered the request, in order
MatchingLayers(req) == SelectSeq(stack, LAMBDA l : Matches(l, req))

\* a request arrives once the module has run to its end and the app is
\* bound to a port or handed to the host; it is answered by the first
\* matching layer that does not call next(), or by Express's own 404.
\* Routing is synchronous: a request is taken once the answer to the one
\* before it has been sent
HandleRequest(req) ==
    /\ pc > Len(Bootstrap(variant))
    /\ listens > 0 \/ exported
    /\ served = NotServed
    /\ LET m == MatchingLayers(req)
       IN \E k \in 1..(Len(m) + 1) :
             /\ \A i \in 1..(k - 1) : ~AlwaysAnswers(m[i])
             /\ k <= Len(m) => ~AlwaysPasses(m[k])
             /\ served' =
                   [req |-> req,
                    offered |-> [i \in 1..(IF k <= Len(m) THEN k ELSE Len(m)) |->
                                    m[i].handler],
                    handledBy |-> IF k <= Len(m) THEN m[k].handler
                                  ELSE "finalhandler",
                    headers |-> IF \E i \in 1..Len(m) :
                                      i <= k /\ m[i].handler = "cors"
                                THEN CorsHeaders(corsOptions)
                                ELSE EmptyMap,
                    error |-> NoErrorResponse]
    /\ UNCHANGED <<env, variant, pc, stack, corsOptions, dbConnects, listens, exported>>
    /\ UNCHANGED clientVars
    /\ UNCHANGED interceptorVars

\* what a handler throws or passes to next(err): status 0 and message "" stand
\* for an error without that property
Errors ==
    {[status |-> st, message |-> msg, stack |-> "Error: at handler"] :
        st \in {0, 400}, msg \in {"", "boom"}}

\* process.env.NODE_ENV === 'development'
IsDevelopment(e) == Has(e, "NODE_ENV") /\ e["NODE_ENV"] = "development"

\* the error middleware with the stack shown whenever not in production
errorHandlerNotProduction(err, e) ==
    [status |-> IF err.status # 0 THEN err.status ELSE 500,
     body |-> LET message == [k \in {"message"} |->
                                 IF err.message # "" THEN err.message
                                 ELSE "Something went wrong!"]
              IN IF ~IsProduction(e) THEN setItem(message, "error", err.stack)
                 ELSE message]

\* app.use((err, req, res, next) => res.status(err.status || 500).json(...)):
\* a property whose value is undefined is left out of the JSON body
errorHandler(err, e) ==
    [status |-> IF err.status # 0 THEN err.status ELSE 500,
     body |-> LET message == [k \in {"message"} |->
                                 IF err.message # "" THEN err.message
                                 ELSE "Something went wrong!"]
              IN IF IsDevelopment(e) THEN setItem(message, "error", err.stack)
                 ELSE message]

\* the handlers whose work can fail: route groups, static directories and
\* the single-page fallback; requests carry well-formed bodies
CanFail(layer) ==
    /\ ~AlwaysPasses(layer)
    /\ layer.handler \notin {"notFoundHandler", "rootCheck", "healthCheck"}

\* positions in the stack of the layers offered the request, in order
MatchingPositions(req) ==
    SelectSeq([i \in 1..Len(stack) |-> i], LAMBDA i : Matches(stack[i], req))

\* a handler the request reached fails with err: Express passes over the
\* remaining layers up to the first error-handling layer mounted after it,
\* which answers; with none, Express's own error page is sent, which is no
\* JSON body of this module
HandleFailingRequest(req, err) ==
    /\ pc > Len(Bootstrap(variant))
    /\ listens > 0 \/ exported
    /\ served = NotServed
    /\ LET p == MatchingPositions(req)
       IN \E k \in 1..Len(p) :
             /\ \A i \in 1..(k - 1) : ~AlwaysAnswers(stack[p[i]])
             /\ CanFail(stack[p[k]])
             /\ LET after == {j \in (p[k] + 1)..Len(stack) :
                                 /\ stack[j].kind = "error"
                                 /\ IsPrefix(stack[j].path, req.path)}
                    first == CHOOSE j \in after : \A i \in after : j <= i
                    by == IF after = {} THEN "finalhandler" ELSE stack[first].handler
                IN served' =
                      [req |-> req,
                       offered |-> [i \in 1..(k + 1) |->
                                       IF i <= k THEN stack[p[i]].handler ELSE by],
                       handledBy |-> by,
                       headers |-> IF \E i \in 1..k : stack[p[i]].handler = "cors"
                                   THEN CorsHeaders(corsOptions)
                                   ELSE EmptyMap,
                       error |-> IF by = "errorHandler" THEN errorHandler(err, env)
                                 ELSE NoErrorResponse]
    /\ UNCHANGED <<env, variant, pc, stack, corsOptions, dbConnects, listens, exported>>
    /\ UNCHANGED clientVars
    /\ UNCHANGED interceptorVars

\* res.send / res.json / res.sendFile: the answer is sent and the exchange
\* is over
EndResponse ==
    /\ served # NotServed
    /\ served' = NotServed
    /\ UNCHANGED <<env, variant, pc, stack, corsOptions, dbConnects, listens, exported>>
    /\ UNCHANGED clientVars
    /\ UNCHANGED interceptorVars

ServerIdle ==
    /\ env = EmptyMap
    /\ variant = 0
    /\ pc = 0
    /\ stack = <<>>
    /\ corsOptions = NoCorsOptions
    /\ dbConnects = 0
    /\ listens = 0
    /\ exported = FALSE
    /\ served = NotServed

InitServer ==
    /\ env \in {e \in Environments : EnvOk(e)}
    /\ variant \in Variants
    /\ pc = 1
    /\ stack = <<>>
    /\ corsOptions = NoCorsOptions
    /\ dbConnects = 0
    /\ listens = 0
    /\ exported = FALSE
    /\ served = NotServed
    /\ localStorage = EmptyMap
    /\ defaults = EmptyMap
    /\ redirects = 0
    /\ calls = <<>>
    /\ config = [headers |-> EmptyMap]
    /\ applied = 0

NextServer ==
    \/ Use
    \/ UseError
    \/ Get
    \/ UseCors
    \/ ConnectDB
    \/ Listen
    \/ Export
    \/ SkipBlock
    \/ \E req \in Requests : HandleRequest(req)
    \/ \E req \in Requests, err \in Errors : HandleFailingRequest(req, err)
    \/ EndResponse

SpecServer == InitServer /\ [][NextServer]_vars

-----------------------------------------------------------------------------
(* The client as a state machine: an endpoint function is called (its      *)
(* request is dispatched through the request interceptor), and later its   *)
(* HTTP call settles (response interceptor, then the rest of the function).*)

\* the slots calls are made through: the caller awaits each call
Slots == {1}

IdleCall ==
    [state |-> "idle", fn |-> "", args |-> NoArgs, headers |-> EmptyMap,
     resp |-> NoResp, outcome |-> NoOutcome]

\* arguments fn is called with
ArgsOf(fn) == IF fn = "loginUser" THEN LoginArgs ELSE {NoArgs}

\* request headers taken from the instance defaults alone
SentHeadersDefaultsOnly(fn) ==
    IF UsesSharedClient(fn) THEN defaults ELSE EmptyMap

\* headers of the request fn sends: the instance defaults, then the request
\* interceptor; axios.get of fetchAddressSuggestions has neither
SentHeaders(fn) ==
    IF UsesSharedClient(fn)
    THEN RequestInterceptor([headers |-> defaults], localStorage).headers
    ELSE EmptyMap

\* fn(args) is called: runs up to its `await API.<method>(...)`
Dispatch(s, fn, args) ==
    /\ calls[s].state # "pending"
    /\ calls' = [calls EXCEPT ![s] =
                    [state |-> "pending", fn |-> fn, args |-> args,
                     headers |-> SentHeaders(fn), resp |-> NoResp,
                     outcome |-> NoOutcome]]
    /\ UNCHANGED <<localStorage, defaults, redirects>>
    /\ UNCHANGED interceptorVars
    /\ UNCHANGED serverVars

\* the world after the HTTP call of fn settled with resp and fn ran to its end
AfterSettle(fn, args, resp) ==
    LET w0 == [ls |-> localStorage, defaults |-> defaults,
               redirects |-> redirects]
        w1 == IF UsesSharedClient(fn) /\ resp.kind # "ok"
              THEN ResponseInterceptorError(w0, resp)
              ELSE w0
    IN Continuation(fn, w1, args, resp)

\* the HTTP call of slot s settles with resp
Settle(s, resp) ==
    /\ calls[s].state = "pending"
    /\ resp \in Responses(calls[s].fn)
    /\ LET r == AfterSettle(calls[s].fn, calls[s].args, resp)
       IN /\ r.w.redirects <= MaxRedirects
          /\ localStorage' = r.w.ls
          /\ defaults' = r.w.defaults
          /\ redirects' = r.w.redirects
          /\ calls' = [calls EXCEPT ![s] =
                          [@ EXCEPT !.state = "settled", !.resp = resp,
                                    !.outcome = r.outcome]]
    /\ UNCHANGED interceptorVars
    /\ UNCHANGED serverVars

\* values of the variables a specification does not use
InterceptorIdle == config = [headers |-> EmptyMap] /\ applied = 0

ClientIdle ==
    /\ defaults = EmptyMap
    /\ redirects = 0
    /\ calls = [s \in Slots |-> IdleCall]

\* what earlier page loads may have left in localStorage: a token loginUser
\* stored, a user record the application stored
StoredBefore ==
    {ls \in UNION {[K -> {Bearer \o t : t \in RawTokens} \cup {<<"u">>}] :
                      K \in SUBSET {"token", "user"}} :
        /\ Has(ls, "token") => ls["token"] # <<"u">>
        /\ Has(ls, "user") => ls["user"] = <<"u">>}

\* axios.create copies the headers.common of the global axios defaults
DefaultsAtCreate ==
    {EmptyMap} \cup {[k \in {"Authorization"} |-> Bearer \o t] : t \in RawTokens}

Init ==
    /\ localStorage \in StoredBefore
    /\ defaults \in DefaultsAtCreate
    /\ redirects = 0
    /\ calls = [s \in Slots |-> IdleCall]
    /\ InterceptorIdle
    /\ ServerIdle

Next ==
    \E s \in Slots :
        \/ \E fn \in Functions : \E args \in ArgsOf(fn) : Dispatch(s, fn, args)
        \/ \E resp \in UNION {Responses(fn) : fn \in Functions} : Settle(s, resp)

Spec == Init /\ [][Next]_vars

-----------------------------------------------------------------------------
(* Calls that overlap: the caller does not await one call before making    *)
(* the next, so two requests of the shared client are in flight together.  *)

\* the calls that may overlap
ConcurrentSlots == {1, 2}

\* the functions that write the session, and one that only reads through it
ConcurrentFunctions == {"loginUser", "logoutUser", "getOrganizations"}

\* what overlapping calls are answered: a success, a 401, a 500 or nothing
ConcurrentResponses ==
    {r \in UNION {Responses(fn) : fn \in ConcurrentFunctions} :
        /\ r.kind = "error" => (r.status \in {401, 500} /\ r.data = NoBody)
        /\ (r.kind = "ok" /\ Has(r.data, "role")) => r.data.role = "agent"}

InitConcurrent ==
    /\ localStorage \in StoredBefore
    /\ defaults \in DefaultsAtCreate
    /\ redirects = 0
    /\ calls = [s \in ConcurrentSlots |-> IdleCall]
    /\ InterceptorIdle
    /\ ServerIdle

NextConcurrent ==
    \E s \in ConcurrentSlots :
        \/ \E fn \in ConcurrentFunctions :
              \E args \in {a \in ArgsOf(fn) : a.organizationId \in {0, 42}} :
                 Dispatch(s, fn, args)
        \/ \E resp \in ConcurrentResponses : Settle(s, resp)

SpecConcurrent == InitConcurrent /\ [][NextConcurrent]_vars

-----------------------------------------------------------------------------
(* The request interceptor on its own: any string may sit in localStorage  *)
(* under 'token' (other code of the page writes there too), and the        *)
(* interceptor may run more than once on the same config.                  *)

\* how many times the interceptor runs on one config
MaxApplied == 2

\* pieces token strings are assembled from: the prefix and near misses
Parts ==
    {Bearer,
     <<"B", "e", "a", "r", "e", "r">>,
     <<"b", "e", "a", "r", "e", "r", " ">>,
     <<"a", "b", "c">>,
     <<" ">>}

RECURSIVE Concats(_)
Concats(n) ==
    IF n = 0 THEN {<<>>}
    ELSE {p \o t : p \in Parts, t \in Concats(n - 1)}

\* the strings localStorage may hold under 'token', the empty string included
TokenStrings == UNION {Concats(n) : n \in 0..MaxParts}

InitInterceptor ==
    /\ localStorage \in
          {EmptyMap} \cup {[k \in {"token"} |-> t] : t \in TokenStrings}
    /\ config \in {[headers |-> h] : h \in DefaultsAtCreate}
    /\ applied = 0
    /\ ClientIdle
    /\ ServerIdle

\* the interceptor runs on the config
Intercept ==
    /\ applied < MaxApplied
    /\ config' = RequestInterceptor(config, localStorage)
    /\ applied' = applied + 1
    /\ UNCHANGED clientVars
    /\ UNCHANGED serverVars

NextInterceptor == Intercept

SpecInterceptor == InitInterceptor /\ [][NextInterceptor]_vars

-----------------------------------------------------------------------------
(* Properties.                                                             *)

\* number of 'Bearer ' markers a string starts with
RECURSIVE LeadingBearers(_)
LeadingBearers(s) ==
    IF startsWith(s, Bearer)
    THEN 1 + LeadingBearers(SubSeq(s, Len(Bearer) + 1, Len(s)))
    ELSE 0

\* the call of slot s settles in this step
Settles(s) == calls[s].state = "pending" /\ calls'[s].state = "settled"

\* the call of slot s settles in this step with a 401 response
Settles401(s) == Settles(s) /\ StatusIs(calls'[s].resp, 401)

SessionCleared(ls) == ~Has(ls, "token") /\ ~Has(ls, "user")

\* returns data, returns null, or raises
OutcomeClass(o) ==
    IF o.kind = "throw" THEN "raise"
    ELSE IF Has(o.value, "null") THEN "null"
    ELSE "data"

\* C1, state part: once the interceptor ran with a non-empty stored token,
\* the Authorization header is the token itself when the token starts with
\* 'Bearer ', and 'Bearer ' + token otherwise; the interceptor never adds a
\* marker to a token that carries one
C1_HeaderOf ==
    (applied >= 1 /\ Has(localStorage, "token") /\ localStorage["token"] # <<>>)
    => /\ Has(config.headers, "Authorization")
       /\ LET t == localStorage["token"]
              h == config.headers["Authorization"]
          IN /\ startsWith(h, Bearer)
             /\ LeadingBearers(t) >= 1 => h = t
             /\ LeadingBearers(t) = 0 => (h = Bearer \o t /\ LeadingBearers(h) = 1)
             /\ Len(h) \in {Len(t), Len(t) + Len(Bearer)}

\* C1: for every non-empty stored token the request interceptor sends the
\* token with one 'Bearer ' prefix (unchanged when it already starts with
\* 'Bearer ', prefixed otherwise), and running the interceptor again on the
\* same config leaves the header as it is
C1_InterceptorPrefixesOnce ==
    [](C1_HeaderOf) /\ [][applied >= 1 => config' = config]_vars

\* C1 witness: the interceptor ran twice on a stored token without prefix
C1_Witness ==
    /\ applied = 2
    /\ Has(localStorage, "token")
    /\ localStorage["token"] = <<"a", "b", "c">>
    /\ config.headers["Authorization"] = Bearer \o <<"a", "b", "c">>

\* C2 as stated: whatever endpoint function receives a 401, afterwards
\* 'token' and 'user' are absent and one redirect to '/login' happened
C2_Original ==
    [][\A s \in Slots :
          Settles401(s) =>
              /\ SessionCleared(localStorage')
              /\ redirects' = redirects + 1]_vars

\* C2 amended: a 401 received by an endpoint function of the shared client
\* leaves 'token' and 'user' absent and triggers exactly one redirect (also
\* for logoutUser); a 401 received by fetchAddressSuggestions, which calls
\* axios directly, leaves localStorage as it was and triggers no redirect
C2_TeardownOn401 ==
    [][\A s \in Slots :
          Settles401(s) =>
              IF UsesSharedClient(calls[s].fn)
              THEN /\ SessionCleared(localStorage')
                   /\ ~Has(defaults', "Authorization")
                   /\ redirects' = redirects + 1
              ELSE /\ localStorage' = localStorage
                   /\ redirects' = redirects]_vars

\* C2 witness: logoutUser, sent with a session, got a 401: storage is empty
\* and one redirect happened
C2_Witness ==
    \E s \in Slots :
        /\ calls[s].state = "settled"
        /\ calls[s].fn = "logoutUser"
        /\ StatusIs(calls[s].resp, 401)
        /\ Has(calls[s].headers, "Authorization")
        /\ SessionCleared(localStorage)
        /\ redirects = 1

\* C3: a successful loginUser stores 'Bearer ' + t under 'token' and returns
\* a session with that token, isAuthenticated, the caller's organizationId
\* and the response's role, userId, firstName, lastName, departmentId
C3_LoginSession ==
    [][\A s \in Slots :
          (Settles(s) /\ calls[s].fn = "loginUser" /\ calls'[s].resp.kind = "ok")
          => LET d == calls'[s].resp.data
                 o == calls'[s].outcome
             IN /\ Has(localStorage', "token")
                /\ localStorage'["token"] = Bearer \o d.token
                /\ o.kind = "return"
                /\ Has(o.value, "session")
                /\ o.value.session.token = Bearer \o d.token
                /\ o.value.session.isAuthenticated
                /\ o.value.session.organizationId = calls[s].args.organizationId
                /\ o.value.session.role = d.role
                /\ o.value.session.userId = d.userId
                /\ o.value.session.firstName = d.firstName
                /\ o.value.session.lastName = d.lastName
                /\ o.value.session.departmentId = d.departmentId]_vars

\* C3 witness: a login answered with token 'abc' and a server organizationId
\* other than the caller's
C3_Witness ==
    \E s \in Slots :
        /\ calls[s].state = "settled"
        /\ calls[s].fn = "loginUser"
        /\ calls[s].resp.kind = "ok"
        /\ calls[s].resp.data.token = <<"a", "b", "c">>
        /\ calls[s].resp.data.organizationId = 99
        /\ calls[s].args.organizationId = 42
        /\ calls[s].outcome.value.session.organizationId = 42
        /\ localStorage["token"] = Bearer \o <<"a", "b", "c">>

\* C4: when logoutUser settles, however POST /auth/logout ended, 'token' and
\* 'user' are absent and the default Authorization header is removed; a
\* failed remote call is raised to the caller as the error it was
C4_LogoutAlwaysClears ==
    [][\A s \in Slots :
          (Settles(s) /\ calls[s].fn = "logoutUser")
          => /\ SessionCleared(localStorage')
             /\ ~Has(defaults', "Authorization")
             /\ calls'[s].resp.kind = "ok" => calls'[s].outcome.kind = "return"
             /\ calls'[s].resp.kind # "ok" =>
                   /\ calls'[s].outcome.kind = "throw"
                   /\ Has(calls'[s].outcome.value, "axiosError")
                   /\ calls'[s].outcome.value.axiosError = calls'[s].resp]_vars

\* C4 witness: a logout sent with a session whose remote call got no answer
C4_Witness ==
    \E s \in Slots :
        /\ calls[s].state = "settled"
        /\ calls[s].fn = "logoutUser"
        /\ calls[s].resp.kind = "network"
        /\ Has(calls[s].headers, "Authorization")
        /\ calls[s].outcome.kind = "throw"
        /\ SessionCleared(localStorage)

\* C5: getWorkflowForComplaint returns null exactly when the request failed
\* with status 404, raises on every other failure and returns the response
\* data on success
C5_WorkflowNullOn404 ==
    [][\A s \in Slots :
          (Settles(s) /\ calls[s].fn = "getWorkflowForComplaint")
          => LET r == calls'[s].resp
                 o == calls'[s].outcome
             IN /\ OutcomeClass(o) = "null" <=> StatusIs(r, 404)
                /\ r.kind = "ok" =>
                      (o.kind = "return" /\ Has(o.value, "data")
                       /\ o.value.data = r.data)
                /\ (r.kind # "ok" /\ ~StatusIs(r, 404)) => o.kind = "throw"]_vars

\* C5 witness: a lookup answered 404 returned null
C5_Witness ==
    \E s \in Slots :
        /\ calls[s].state = "settled"
        /\ calls[s].fn = "getWorkflowForComplaint"
        /\ StatusIs(calls[s].resp, 404)
        /\ calls[s].outcome.kind = "return"
        /\ Has(calls[s].outcome.value, "null")

\* C6: on every response outcome getFeedbackByComplaint ends the way
\* getWorkflowForComplaint ends on it: data, null, or a raised error
C6_FeedbackSameContract ==
    [][\A s \in Slots :
          (Settles(s) /\ calls[s].fn = "getFeedbackByComplaint")
          => OutcomeClass(calls'[s].outcome) =
                OutcomeClass(getWorkflowForComplaint(
                    [ls |-> localStorage, defaults |-> defaults,
                     redirects |-> redirects],
                    calls[s].args, calls'[s].resp).outcome)]_vars

\* C6 witness: a feedback lookup answered 404 returned null
C6_Witness ==
    \E s \in Slots :
        /\ calls[s].state = "settled"
        /\ calls[s].fn = "getFeedbackByComplaint"
        /\ StatusIs(calls[s].resp, 404)
        /\ OutcomeClass(calls[s].outcome) = "null"

\* C9 as stated: the token in localStorage always starts with exactly one
\* 'Bearer ' marker
C9_StoredTokenSinglePrefix ==
    Has(localStorage, "token") => LeadingBearers(localStorage["token"]) = 1

\* position of the layer of handler h in the stack, 0 when it is not mounted
MountedAt(h) ==
    IF \E i \in 1..Len(stack) : stack[i].handler = h
    THEN CHOOSE i \in 1..Len(stack) :
            /\ stack[i].handler = h
            /\ \A j \in 1..(i - 1) : stack[j].handler # h
    ELSE 0

RouteGroups ==
    {"organizationRoutes", "authRoutes", "userRoutes", "departmentRoutes",
     "complaintTypeRoutes", "complaintRoutes", "workflowRoutes",
     "notificationRoutes", "feedbackRoutes"}

NineMounted == \A h \in RouteGroups : MountedAt(h) > 0

BootstrapDone == pc > Len(Bootstrap(variant))

\* the phase of the server lifecycle a state is in
Phase ==
    IF listens > 0 THEN "Listening"
    ELSE IF exported THEN "HandedToHost"
    ELSE IF NineMounted THEN "RoutesMounted"
    ELSE "Init"

\* C7: in each variant complaintTypeRoutes is mounted at /api/complaints/types
\* before complaintRoutes is mounted at /api/complaints, and a request under
\* /api/complaints/types is offered to complaintTypeRoutes before any other
\* route group, complaintRoutes included
C7_TypesBeforeComplaints ==
    /\ MountedAt("complaintRoutes") > 0 =>
          /\ MountedAt("complaintTypeRoutes") > 0
          /\ MountedAt("complaintTypeRoutes") < MountedAt("complaintRoutes")
          /\ stack[MountedAt("complaintTypeRoutes")].path = <<"api", "complaints", "types">>
          /\ stack[MountedAt("complaintRoutes")].path = <<"api", "complaints">>
    /\ (served # NotServed
        /\ IsPrefix(<<"api", "complaints", "types">>, served.req.path)) =>
          /\ \E j \in 1..Len(served.offered) : served.offered[j] = "complaintTypeRoutes"
          /\ \A i \in 1..Len(served.offered) :
                served.offered[i] \in RouteGroups =>
                    \E j \in 1..i : served.offered[j] = "complaintTypeRoutes"

\* C7 witness: variant 2 answered /api/complaints/types/5 from the
\* complaint-type group, the complaints group never being offered it
C7_Witness ==
    /\ variant = 2
    /\ served.req.path = <<"api", "complaints", "types", "5">>
    /\ served.handledBy = "complaintTypeRoutes"
    /\ \A i \in 1..Len(served.offered) : served.offered[i] # "complaintRoutes"

\* the response headers grant the request's origin cross-origin access
Granted(sv) ==
    /\ Has(sv.headers, "Access-Control-Allow-Origin")
    /\ \/ sv.headers["Access-Control-Allow-Origin"] = "*"
       \/ sv.headers["Access-Control-Allow-Origin"] = sv.req.origin

\* C8: with FRONTEND_URL set, a request from another origin is not granted
\* cross-origin access; with FRONTEND_URL unset the allowed origin is '*' and
\* every origin is granted; credentials are enabled either way
C8_CorsOrigin ==
    /\ corsOptions # NoCorsOptions => corsOptions.credentials
    /\ served # NotServed =>
          /\ Has(served.headers, "Access-Control-Allow-Credentials")
          /\ served.headers["Access-Control-Allow-Credentials"] = "true"
          /\ (Has(env, "FRONTEND_URL") /\ served.req.origin # env["FRONTEND_URL"])
                => ~Granted(served)
          /\ ~Has(env, "FRONTEND_URL") =>
                /\ Granted(served)
                /\ served.headers["Access-Control-Allow-Origin"] = "*"

\* C8 witness: FRONTEND_URL is the application's origin and a request from
\* another origin was served without being granted access
C8_Witness ==
    /\ Has(env, "FRONTEND_URL")
    /\ env["FRONTEND_URL"] = "https://app.example"
    /\ served.req.origin = "https://evil.example"
    /\ served.handledBy = "userRoutes"
    /\ ~Granted(served)

\* C10, state part: app.listen is called at most once, only outside
\* production and only with the nine route groups mounted; a server handed
\* to the host is a production one; the bootstrap ends Listening outside
\* production and HandedToHost (exported, never listening) in production
C10_ListenOnlyOutsideProduction ==
    /\ listens <= 1
    /\ listens > 0 => (~IsProduction(env) /\ NineMounted)
    /\ IsProduction(env) => listens = 0
    /\ Phase = "HandedToHost" => (IsProduction(env) /\ NineMounted)
    /\ BootstrapDone =>
          /\ exported
          /\ Phase = IF IsProduction(env) THEN "HandedToHost" ELSE "Listening"

\* C10: in the three variants the lifecycle only moves Init -> RoutesMounted
\* -> Listening (NODE_ENV not 'production') or Init -> RoutesMounted ->
\* HandedToHost ('production'); listen is called only outside production,
\* after the nine route groups are mounted, and at most once
C10_Lifecycle ==
    /\ [](C10_ListenOnlyOutsideProduction)
    /\ [][Phase' # Phase =>
            <<Phase, Phase'>> \in {<<"Init", "RoutesMounted">>,
                                   <<"RoutesMounted", "Listening">>,
                                   <<"RoutesMounted", "HandedToHost">>}]_vars

\* C10 witness: variant 2 ran to its end in production: exported, not listening
C10_Witness ==
    /\ variant = 2
    /\ IsProduction(env)
    /\ BootstrapDone
    /\ Phase = "HandedToHost"
    /\ listens = 0

\* the two functions with a documented 404-to-null path
NullOn404 == {"getWorkflowForComplaint", "getFeedbackByComplaint"}

\* the message getAllDepartments raises on a 403
PermissionMessage == "You do not have permission to view departments"

\* C11 as stated: outside the two 404-to-null paths, a failed HTTP call makes
\* its endpoint function raise, and what it raises is never undefined
C11_FailureRaisesDefined ==
    [][\A s \in DOMAIN calls :
          (/\ Settles(s)
           /\ calls'[s].resp.kind # "ok"
           /\ ~(calls[s].fn \in NullOn404 /\ StatusIs(calls'[s].resp, 404)))
          => /\ calls'[s].outcome.kind = "throw"
             /\ ~Has(calls'[s].outcome.value, "undefined")]_vars

\* C12: getAllDepartments raises the permission-denied Error exactly when
\* the response status is 403 and re-raises the axios error as it is on every
\* other failure; no other endpoint function raises the permission message
C12_PermissionOn403 ==
    [][\A s \in DOMAIN calls :
          (Settles(s) /\ calls'[s].resp.kind # "ok")
          => LET r == calls'[s].resp
                 o == calls'[s].outcome
                 permission == /\ o.kind = "throw"
                               /\ Has(o.value, "Error")
                               /\ o.value.Error = PermissionMessage
             IN IF calls[s].fn = "getAllDepartments"
                THEN /\ o.kind = "throw"
                     /\ permission <=> StatusIs(r, 403)
                     /\ ~StatusIs(r, 403) =>
                           (Has(o.value, "axiosError") /\ o.value.axiosError = r)
                ELSE ~permission]_vars

\* C12 witness: a department listing answered 403 raised the permission Error
C12_Witness ==
    \E s \in DOMAIN calls :
        /\ calls[s].state = "settled"
        /\ calls[s].fn = "getAllDepartments"
        /\ StatusIs(calls[s].resp, 403)
        /\ calls[s].outcome.kind = "throw"
        /\ Has(calls[s].outcome.value, "Error")
        /\ calls[s].outcome.value.Error = PermissionMessage

\* the last two layers of the stack are the error middleware and, after it,
\* the 404 handler
LastTwoRegistered ==
    /\ Len(stack) >= 2
    /\ stack[Len(stack) - 1] = Layer("error", <<>>, "errorHandler")
    /\ stack[Len(stack)] = Layer("use", <<>>, "notFoundHandler")

\* C13 as stated: the answer of the error middleware carries the stack
\* whenever NODE_ENV is not 'production' and never when it is; the error
\* middleware and the 404 handler are the last two handlers registered
C13_Original ==
    /\ served.handledBy = "errorHandler" =>
          (Has(served.error.body, "error") <=> ~IsProduction(env))
    /\ (variant = 2 /\ BootstrapDone) => LastTwoRegistered

\* C13 amended: the answer of the error middleware carries the stack exactly
\* when NODE_ENV is 'development': never in production, and not when NODE_ENV
\* is unset or 'test' either; its status is the error's own or 500 and its
\* message the error's own or the fixed one; the error middleware and the 404
\* handler are the last two handlers registered
C13_StackOnlyInDevelopment ==
    /\ served.handledBy = "errorHandler" =>
          /\ Has(served.error.body, "error") <=> IsDevelopment(env)
          /\ IsProduction(env) => ~Has(served.error.body, "error")
          /\ Has(served.error.body, "message")
          /\ served.error.body["message"] \in {"boom", "Something went wrong!"}
          /\ served.error.status \in {400, 500}
    /\ (variant = 2 /\ BootstrapDone) => LastTwoRegistered

\* C13 witness: with NODE_ENV 'test' a failed handler of variant 2 was answered
\* by the error middleware without the stack
C13_Witness ==
    /\ variant = 2
    /\ Has(env, "NODE_ENV")
    /\ env["NODE_ENV"] = "test"
    /\ served.handledBy = "errorHandler"
    /\ served.error.status = 500
    /\ ~Has(served.error.body, "error")

\* no session is left: storage holds neither 'token' nor 'user' and the
\* instance has no default Authorization header
TornDown ==
    /\ ~Has(localStorage, "token")
    /\ ~Has(localStorage, "user")
    /\ ~Has(defaults, "Authorization")

\* slot s goes from not pending to pending: a request is dispatched
Dispatches(s) == calls[s].state # "pending" /\ calls'[s].state = "pending"

\* C14: the Authorization header of a request of the shared client is fixed
\* at dispatch from the token then in storage; while the request is in
\* flight, and when it settles, the header stays what it was, whatever a
\* logoutUser completion or a 401 teardown of another call clears meanwhile;
\* such a teardown leaves no token, no user and no default header, only a
\* successful loginUser ends that, and a request dispatched while it lasts
\* carries no Authorization header
C14_HeaderFixedAtDispatch ==
    [][/\ \A s \in DOMAIN calls :
            /\ (calls[s].state = "pending" /\ calls'[s].state # "idle")
               => calls'[s].headers = calls[s].headers
            /\ (Dispatches(s) /\ UsesSharedClient(calls'[s].fn))
               => IF Has(localStorage, "token")
                  THEN /\ Has(calls'[s].headers, "Authorization")
                       /\ calls'[s].headers["Authorization"] =
                             IF startsWith(localStorage["token"], Bearer)
                             THEN localStorage["token"]
                             ELSE Bearer \o localStorage["token"]
                  ELSE TornDown => ~Has(calls'[s].headers, "Authorization")
            /\ (/\ Settles(s)
                /\ UsesSharedClient(calls[s].fn)
                /\ (calls[s].fn = "logoutUser" \/ Settles401(s)))
               => TornDown'
       /\ (TornDown /\ ~TornDown')
          => \E s \in DOMAIN calls :
                /\ Settles(s)
                /\ calls[s].fn = "loginUser"
                /\ calls'[s].resp.kind = "ok"]_vars

\* C14 witness: a logoutUser has settled and cleared the session while another
\* request, dispatched before, is still in flight with its Authorization header
C14_Witness ==
    \E s, t \in DOMAIN calls :
        /\ calls[s].state = "pending"
        /\ calls[s].fn = "getOrganizations"
        /\ Has(calls[s].headers, "Authorization")
        /\ calls[t].state = "settled"
        /\ calls[t].fn = "logoutUser"
        /\ TornDown

\* the request of slot s was dispatched under a session other than the one
\* now stored: its Authorization header is not the stored token
DispatchedUnderOlderSession(s) ==
    /\ UsesSharedClient(calls[s].fn)
    /\ Has(calls[s].headers, "Authorization")
    /\ Has(localStorage, "token")
    /\ calls[s].headers["Authorization"] # localStorage["token"]

\* C16 as stated: a 401 answering a request dispatched under an older
\* session leaves the token of the session now stored in place and triggers
\* no redirect
C16_Original ==
    [][\A s \in DOMAIN calls :
          (Settles401(s) /\ DispatchedUnderOlderSession(s))
          => /\ Has(localStorage', "token")
             /\ localStorage'["token"] = localStorage["token"]
             /\ redirects' = redirects]_vars

\* C16 amended: a 401 tears down whatever session is stored when it arrives,
\* not the one its request was dispatched under: when the request was
\* dispatched under an older session and a loginUser has stored a newer token
\* since, the 401 removes that token and 'user', clears the default header and
\* redirects once; the other call in flight keeps its header
C16_Late401TearsDownCurrentSession ==
    [][\A s \in DOMAIN calls :
          (Settles401(s) /\ DispatchedUnderOlderSession(s))
          => /\ TornDown'
             /\ redirects' = redirects + 1
             /\ \A t \in DOMAIN calls \ {s} : calls'[t] = calls[t]]_vars

\* C16 witness: a request sent with one token was answered 401 after a
\* loginUser in the other slot had stored another token; that token is gone
\* and the redirect has happened
C16_Witness ==
    \E s, t \in DOMAIN calls :
        /\ calls[s].state = "settled"
        /\ calls[s].fn = "getOrganizations"
        /\ StatusIs(calls[s].resp, 401)
        /\ Has(calls[s].headers, "Authorization")
        /\ calls[t].state = "settled"
        /\ calls[t].fn = "loginUser"
        /\ calls[t].resp.kind = "ok"
        /\ calls[s].headers["Authorization"] # Bearer \o calls[t].resp.data.token
        /\ Has(calls[t].headers, "Authorization")
        /\ calls[t].headers = calls[s].headers
        /\ TornDown
        /\ redirects = 1

\* storage with 'token' and 'user' removed
Cleared(ls) == removeItem(removeItem(ls, "token"), "user")

\* C15: localStorage changes only when a loginUser succeeds (it writes
\* 'token'), when a logoutUser settles, or when a call of the shared client
\* is answered 401 (both remove 'token' and 'user'); every other settled
\* call, a failed loginUser included, leaves it as it was; 'user' is never
\* written
C15_StorageFrame ==
    [][/\ \A s \in DOMAIN calls :
            Settles(s) =>
               LET fn == calls[s].fn
                   r == calls'[s].resp
               IN IF (UsesSharedClient(fn) /\ StatusIs(r, 401)) \/ fn = "logoutUser"
                  THEN localStorage' = Cleared(localStorage)
                  ELSE IF fn = "loginUser" /\ r.kind = "ok"
                  THEN localStorage' =
                          setItem(localStorage, "token", Bearer \o r.data.token)
                  ELSE localStorage' = localStorage
       /\ localStorage' # localStorage => \E s \in DOMAIN calls : Settles(s)
       /\ Has(localStorage', "user") =>
             (Has(localStorage, "user") /\ localStorage'["user"] = localStorage["user"])]_vars

\* C15 witness: a loginUser answered 500 has settled and the token and the
\* user record stored before it are still there
C15_Witness ==
    \E s \in DOMAIN calls :
        /\ calls[s].state = "settled"
        /\ calls[s].fn = "loginUser"
        /\ StatusIs(calls[s].resp, 500)
        /\ calls[s].outcome.kind = "throw"
        /\ Has(localStorage, "token")
        /\ Has(localStorage, "user")
        /\ redirects = 0

====
